---- MODULE Spec2Model ----
(***************************************************************************)
(* Model of the files_manager backend: the FilesController request         *)
(* handlers (controllers/FilesController.js) and the thumbnail worker      *)
(* (worker.js, Bull queue "fileQueue").                                    *)
(*                                                                         *)
(* Encoding of JavaScript values                                           *)
(*   - A request field that may be absent or of several JS types is a      *)
(*     record [k |-> kind, v |-> value]: Undefined, Num(n), Str(s).        *)
(*   - A STRING used as an id is coded by an integer s: s >= 1 is the 24   *)
(*     hex digit text of ObjectId number s, s = 0 is the text "0" and      *)
(*     s = -1 is the text "nonexistent" (neither is a valid ObjectId).     *)
(*   - header / body strings (token, name, type, data) are TLA+ strings,   *)
(*     "" standing for an absent (falsy) value.                            *)
(*   - A file path is <<uuid, suffix>>: suffix "" is the primary path      *)
(*     localPath, suffix "500" is the text `${localPath}_500`.             *)
(*   - A job's fileId is coded like an id text, -2 standing for a missing   *)
(*     fileId.                                                             *)
(*   - status 0 means that the async handler rejected (an exception was    *)
(*     thrown) and no HTTP response was written.                           *)
(***************************************************************************)
EXTENDS Integers, Sequences, FiniteSets, TLC

\* ---------------------------------------------------------------- bounds
MaxFiles == 1      \* records in the files collection
MaxUuid == 1       \* blob files written by postUpload
MaxRuns == 2       \* job runs the worker keeps in flight
MaxQueue == 1      \* jobs waiting that producers other than postUpload added

\* ------------------------------------------------------ program constants
pageSize == 20

\* ------------------------------------------------------------- JS values
Undefined == [k |-> "undefined", v |-> 0]
Num(n) == [k |-> "number", v |-> n]
Str(s) == [k |-> "string", v |-> s]

\* new ObjectId(text) accepts 24 hex digits (or 12 bytes) and throws
\* otherwise; "0" and "nonexistent" (11 characters) make it throw.
ObjectIdValid(x) == x.k = "string" /\ x.v >= 1

ObjectId(x) == x.v

\* ---------------------------------------------------------- environment
Users == {"A", "B"}

Tokens == {"", "tA", "tB", "tX"}

\* redisClient.get(`auth_${token}`): the user id of the session, "" for null.
redisGet(token) ==
  CASE token = "tA" -> "A"
    [] token = "tB" -> "B"
    [] OTHER -> ""

\* Buffer.from(data, 'base64')
Base64Decode(data) ==
  CASE data = "aGk=" -> "hi"
    [] OTHER -> ""

Sizes == <<500, 250, 100>>

SizeSet == {Sizes[i] : i \in 1..Len(Sizes)}

VARIABLES
  files,    \* the files collection: files[i] is the document with _id i
  blobs,    \* the file system under FOLDER_PATH: path -> file
  uuid,     \* number of uuidv4() file names drawn so far
  queue,    \* jobs waiting in fileQueue
  runs,     \* job runs of the worker: slot -> run
  log,      \* jobs whose handler promise has settled
  resp      \* the last request and what the handler answered

vars == <<files, blobs, uuid, queue, runs, log, resp>>

NoRun == [fileId |-> 0]

Init ==
  /\ files = <<>>
  /\ blobs = <<>>
  /\ uuid = 0
  /\ queue = <<>>
  /\ runs = [r \in 1..MaxRuns |-> NoRun]
  /\ log = {}
  /\ resp = [op |-> "none", status |-> 0]

Exists(path) == path \in DOMAIN blobs

Put(fs, path, file) == [p \in (DOMAIN fs) \cup {path} |-> IF p = path THEN file ELSE fs[p]]

\* findOne({ _id }) / findOne({ _id, userId })
HasFile(id) == id \in 1..Len(files)

HasOwnedFile(id, userId) == HasFile(id) /\ files[id].userId = userId

\* ------------------------------------------------------------ postUpload
\* FilesController.js:14-21
UploadUser(token) ==
  IF token = "" THEN ""
  ELSE IF redisGet(token) = "" THEN ""
  ELSE IF redisGet(token) \notin Users THEN ""
  ELSE redisGet(token)

\* FilesController.js:23 -- destructuring defaults
ParentDefault(parentId) == IF parentId = Undefined THEN Num(0) ELSE parentId

PublicDefault(isPublic) == IF isPublic = "undefined" THEN FALSE ELSE isPublic = "true"

\* mutant: the type is checked before the name
FieldErrorTypeFirst(name, type, data) ==
  IF type = "" \/ type \notin {"folder", "file", "image"} THEN "Missing type"
  ELSE IF name = "" THEN "Missing name"
  ELSE IF data = "" /\ type # "folder" THEN "Missing data"
  ELSE ""

\* FilesController.js:25-27
FieldError(name, type, data) ==
  IF name = "" THEN "Missing name"
  ELSE IF type = "" \/ type \notin {"folder", "file", "image"} THEN "Missing type"
  ELSE IF data = "" /\ type # "folder" THEN "Missing data"
  ELSE ""

\* mutant: the parent's type is not checked
ParentErrorNoFolderCheck(parentId) ==
  IF parentId # Num(0)
  THEN IF ~ObjectIdValid(parentId) THEN "TypeError"
       ELSE IF ~HasFile(ObjectId(parentId)) THEN "Parent not found"
       ELSE ""
  ELSE ""

\* FilesController.js:29-33: "" when the parent is accepted, "TypeError" when
\* ObjectId(parentId) throws
ParentError(parentId) ==
  IF parentId # Num(0)
  THEN IF ~ObjectIdValid(parentId) THEN "TypeError"
       ELSE IF ~HasFile(ObjectId(parentId)) THEN "Parent not found"
       ELSE IF files[ObjectId(parentId)].type # "folder" THEN "Parent is not a folder"
       ELSE ""
  ELSE ""

\* mutant: the handler awaits fileQueue.add and fails with it
AddAwaitedTrue == TRUE

\* FilesController.js:70 -- fileQueue.add(...) is neither awaited nor caught:
\* a rejected add is not seen by the handler
AddAwaited == FALSE

\* mutant: a job for every stored file, not only for images
AddJobAnyType(q, type, userId, fileId, addOk) ==
  IF addOk THEN Append(q, [userId |-> userId, fileId |-> fileId]) ELSE q

\* mutant: the job is added for type file instead of type image
AddJobForFile(q, type, userId, fileId, addOk) ==
  IF type = "file" /\ addOk
  THEN Append(q, [userId |-> userId, fileId |-> fileId])
  ELSE q

\* mutant: the job carries an id that no inserted document has
AddJobUnsaved(q, type, userId, fileId, addOk) ==
  IF type = "image" /\ addOk
  THEN Append(q, [userId |-> userId, fileId |-> fileId + 1])
  ELSE q

\* FilesController.js:69-71
AddJob(q, type, userId, fileId, addOk) ==
  IF type = "image" /\ addOk
  THEN Append(q, [userId |-> userId, fileId |-> fileId])
  ELSE q

\* mutant: the record is inserted without its blob being written
WritePrimarySkipped(fs, path, data) == fs

\* FilesController.js:59-63 -- the primary blob, written before the insert
WritePrimary(fs, path, data) ==
  Put(fs, path, [bytes |-> Base64Decode(data), width |-> 0, complete |-> TRUE])

\* FilesController.js:67 -- what is left on disk when insertOne rejects
AfterInsertFailure(fs, written) == written

\* FilesController.js:35-41,65
FileDocument(userId, name, type, isPublic, parentId, localPath) ==
  [userId |-> userId, name |-> name, type |-> type, isPublic |-> isPublic,
   parentId |-> parentId, localPath |-> localPath]

\* FilesController.js:45-52,73-80
UploadBody(id, doc) ==
  [id |-> id, userId |-> doc.userId, name |-> doc.name, type |-> doc.type,
   isPublic |-> doc.isPublic, parentId |-> doc.parentId]

UploadRequest(token, name, type, parentId, isPublic, data, insertOk, addOk) ==
  [token |-> token, name |-> name, type |-> type, parentId |-> parentId,
   isPublic |-> isPublic, data |-> data, insertOk |-> insertOk, addOk |-> addOk]

\* FilesController.js:13-82 -- the handler as a function of the current state
\* and the request: the state it leaves and the response it writes.
\* insertOk / addOk say whether insertOne / fileQueue.add succeed.
UploadOutcome(req) ==
  LET userId == UploadUser(req.token)
      parentId == ParentDefault(req.parentId)
      isPublic == PublicDefault(req.isPublic)
      id == Len(files) + 1
      localPath == IF req.type = "folder" THEN 0 ELSE uuid + 1
      doc == FileDocument(userId, req.name, req.type, isPublic, parentId, localPath)
      written == IF req.type = "folder" THEN blobs
                 ELSE WritePrimary(blobs, <<localPath, "">>, req.data)
      fail(status, error) ==
        [files |-> files, blobs |-> blobs, uuid |-> uuid, queue |-> queue,
         status |-> status, error |-> error, body |-> 0]
  IN
  IF userId = "" THEN fail(401, "Unauthorized")
  ELSE IF FieldError(req.name, req.type, req.data) # ""
  THEN fail(400, FieldError(req.name, req.type, req.data))
  ELSE IF ParentError(parentId) = "TypeError" THEN fail(0, "TypeError")
  ELSE IF ParentError(parentId) # "" THEN fail(400, ParentError(parentId))
  ELSE IF ~req.insertOk
  THEN [files |-> files, blobs |-> AfterInsertFailure(blobs, written),
        uuid |-> IF req.type = "folder" THEN uuid ELSE uuid + 1, queue |-> queue,
        status |-> 0, error |-> "MongoError", body |-> 0]
  ELSE IF req.type = "image" /\ ~req.addOk /\ AddAwaited
  THEN [files |-> Append(files, doc), blobs |-> written, uuid |-> uuid + 1,
        queue |-> queue, status |-> 0, error |-> "QueueError", body |-> 0]
  ELSE [files |-> Append(files, doc), blobs |-> written,
        uuid |-> IF req.type = "folder" THEN uuid ELSE uuid + 1,
        queue |-> IF req.type = "folder" THEN queue
                  ELSE AddJob(queue, req.type, userId, id, req.addOk),
        status |-> 201, error |-> "", body |-> UploadBody(id, doc)]

postUpload(req) ==
  LET out == UploadOutcome(req) IN
  /\ Len(out.files) <= MaxFiles
  /\ out.uuid <= MaxUuid
  /\ files' = out.files
  /\ blobs' = out.blobs
  /\ uuid' = out.uuid
  /\ queue' = out.queue
  /\ resp' = [op |-> "postUpload", req |-> req, status |-> out.status,
              error |-> out.error, body |-> out.body]
  /\ UNCHANGED <<runs, log>>

\* The POST /files requests the model sends.
SentUploads ==
  { UploadRequest("tA", "a.png", "image", Undefined, "undefined", "aGk=", TRUE, TRUE),
    UploadRequest("tA", "a.png", "image", Undefined, "undefined", "aGk=", TRUE, FALSE),
    UploadRequest("tB", "a.png", "file", Undefined, "undefined", "aGk=", TRUE, TRUE),
    UploadRequest("tA", "a.png", "file", Undefined, "undefined", "aGk=", FALSE, TRUE),
    UploadRequest("tA", "a.png", "folder", Undefined, "true", "", TRUE, TRUE),
    UploadRequest("tB", "a.png", "folder", Undefined, "undefined", "", TRUE, TRUE),
    UploadRequest("tA", "a.png", "file", Str(1), "undefined", "aGk=", TRUE, TRUE),
    UploadRequest("tA", "", "image", Str(1), "undefined", "aGk=", TRUE, TRUE),
    UploadRequest("", "a.png", "file", Undefined, "undefined", "aGk=", TRUE, TRUE),
    UploadRequest("tX", "", "file", Str(-1), "undefined", "", TRUE, TRUE),
    UploadRequest("tA", "a.png", "file", Str(-1), "undefined", "aGk=", TRUE, TRUE) }

Upload == \E req \in SentUploads : postUpload(req)

\* ---------------------------------------------------------------- getShow
\* FilesController.js:85-89, 100-104, 122-126, 141-145 -- "" when the handler
\* answers 401
\* mutant: the handler goes on when the session store has no user for the token
SessionUserUnchecked(token) ==
  IF token = "" THEN ""
  ELSE IF redisGet(token) = "" THEN "null" ELSE redisGet(token)

SessionUser(token) == IF token = "" THEN "" ELSE redisGet(token)

IdRequest(token, id) == [token |-> token, id |-> id]

\* FilesController.js:84-97; id is the text of req.params.id
ShowReply(req) ==
  LET userId == SessionUser(req.token) IN
  IF userId = "" THEN [status |-> 401, error |-> "Unauthorized", body |-> 0]
  ELSE IF ~ObjectIdValid(Str(req.id)) THEN [status |-> 0, error |-> "TypeError", body |-> 0]
  ELSE IF ~HasOwnedFile(req.id, userId)
  THEN [status |-> 404, error |-> "Not found", body |-> 0]
  ELSE [status |-> 200, error |-> "", body |-> req.id]

getShow(req) ==
  /\ resp' = [op |-> "getShow", req |-> req, status |-> ShowReply(req).status,
              error |-> ShowReply(req).error, body |-> ShowReply(req).body]
  /\ UNCHANGED <<files, blobs, uuid, queue, runs, log>>

\* --------------------------------------------------------------- getIndex
\* req.query.parentId || '0'
QueryParent(parentId) == IF parentId = Undefined THEN Str(0) ELSE parentId

\* parseInt(req.query.page) || 0; the query text is coded by the number it
\* spells, Undefined parses to NaN and NaN || 0 is 0
QueryPage(page) == IF page = Undefined THEN 0 ELSE page.v

\* $match: { userId, parentId } -- BSON equality is typed: the string '0'
\* does not match the number 0
Matching(userId, parentId) ==
  SelectSeq([i \in 1..Len(files) |-> i],
            LAMBDA i : files[i].userId = userId /\ files[i].parentId = parentId)

\* $skip, $limit
Page(ids, skip, limit) ==
  SubSeq(ids, skip + 1, IF Len(ids) < skip + limit THEN Len(ids) ELSE skip + limit)

IndexRequest(token, parentId, page) == [token |-> token, parentId |-> parentId, page |-> page]

\* FilesController.js:99-119; a negative $skip makes aggregate() reject
IndexReply(req) ==
  LET userId == SessionUser(req.token)
      parentId == QueryParent(req.parentId)
      page == QueryPage(req.page)
  IN
  IF userId = "" THEN [status |-> 401, error |-> "Unauthorized", body |-> <<>>]
  ELSE IF page * pageSize < 0 THEN [status |-> 0, error |-> "MongoError", body |-> <<>>]
  ELSE [status |-> 200, error |-> "",
        body |-> Page(Matching(userId, parentId), page * pageSize, pageSize)]

getIndex(req) ==
  /\ resp' = [op |-> "getIndex", req |-> req, status |-> IndexReply(req).status,
              error |-> IndexReply(req).error, body |-> IndexReply(req).body]
  /\ UNCHANGED <<files, blobs, uuid, queue, runs, log>>

\* ------------------------------------------------ putPublish, putUnpublish
\* mutant: putUnpublish copied from putPublish with the value left at true
SetPublicTrue(docs, id, value) == [docs EXCEPT ![id].isPublic = TRUE]

\* FilesController.js:129-133, 148-152 -- $set: { isPublic }, returnDocument: 'after'
SetPublic(docs, id, value) == [docs EXCEPT ![id].isPublic = value]

\* FilesController.js:121-138 (value = TRUE), 140-157 (value = FALSE): the
\* collection the handler leaves and its response; body is the _id of the
\* document returned, isPublic its isPublic, was its isPublic before the call
PublishOutcome(req, value) ==
  LET userId == SessionUser(req.token) IN
  IF userId = ""
  THEN [files |-> files, status |-> 401, error |-> "Unauthorized", body |-> 0,
        isPublic |-> FALSE, was |-> FALSE]
  ELSE IF ~ObjectIdValid(Str(req.id))
  THEN [files |-> files, status |-> 0, error |-> "TypeError", body |-> 0,
        isPublic |-> FALSE, was |-> FALSE]
  ELSE IF ~HasOwnedFile(req.id, userId)
  THEN [files |-> files, status |-> 404, error |-> "Not found", body |-> 0,
        isPublic |-> FALSE, was |-> FALSE]
  ELSE [files |-> SetPublic(files, req.id, value), status |-> 200, error |-> "",
        body |-> req.id, isPublic |-> SetPublic(files, req.id, value)[req.id].isPublic,
        was |-> files[req.id].isPublic]

SetPublicAction(op, req, value) ==
  LET out == PublishOutcome(req, value) IN
  /\ files' = out.files
  /\ resp' = [op |-> op, req |-> req, status |-> out.status, error |-> out.error,
              body |-> out.body, isPublic |-> out.isPublic, was |-> out.was]
  /\ UNCHANGED <<blobs, uuid, queue, runs, log>>

putPublish(req) == SetPublicAction("putPublish", req, TRUE)

putUnpublish(req) == SetPublicAction("putUnpublish", req, FALSE)

\* ---------------------------------------------------------------- getFile
\* mutant: the user of the token is not compared with the owner
FileAccessAnyUser(file, token) ==
  IF ~file.isPublic
  THEN IF token = "" THEN FALSE
       ELSE IF redisGet(token) = "" THEN FALSE
       ELSE TRUE
  ELSE TRUE

\* FilesController.js:167-173
FileAccess(file, token) ==
  IF ~file.isPublic
  THEN IF token = "" THEN FALSE
       ELSE IF redisGet(token) = "" \/ redisGet(token) # file.userId THEN FALSE
       ELSE TRUE
  ELSE TRUE

\* FilesController.js:168-172 -- the status sent when the access check fails
DeniedStatus == 404

\* FilesController.js:177-181; size is the text of req.query.size, "" if absent
FilePath(file, size) == IF size # "" THEN <<file.localPath, size>> ELSE <<file.localPath, "">>

\* mime.lookup(file.name)
MimeLookup(name) == IF name = "a.png" THEN "image/png" ELSE "false"

FileRequest(token, id, size) == [token |-> token, id |-> id, size |-> size]

NoBlob == [bytes |-> "", width |-> -1, complete |-> FALSE]

\* mutant: the type of the record is checked before the access to it
FileReplyTypeFirst(req) ==
  LET none(status, error) == [status |-> status, error |-> error, body |-> NoBlob,
                              type |-> ""]
  IN
  IF ~ObjectIdValid(Str(req.id)) THEN none(0, "TypeError")
  ELSE IF ~HasFile(req.id) THEN none(404, "Not found")
  ELSE IF files[req.id].type = "folder" THEN none(400, "A folder doesn't have content")
  ELSE IF ~FileAccess(files[req.id], req.token) THEN none(DeniedStatus, "Not found")
  ELSE IF ~Exists(FilePath(files[req.id], req.size)) THEN none(404, "Not found")
  ELSE [status |-> 200, error |-> "", body |-> blobs[FilePath(files[req.id], req.size)],
        type |-> MimeLookup(files[req.id].name)]

\* FilesController.js:159-190; the body is the file that createReadStream
\* finds at filePath
FileReply(req) ==
  LET none(status, error) == [status |-> status, error |-> error, body |-> NoBlob,
                              type |-> ""]
  IN
  IF ~ObjectIdValid(Str(req.id)) THEN none(0, "TypeError")
  ELSE IF ~HasFile(req.id) THEN none(404, "Not found")
  ELSE IF ~FileAccess(files[req.id], req.token) THEN none(DeniedStatus, "Not found")
  ELSE IF files[req.id].type = "folder" THEN none(400, "A folder doesn't have content")
  ELSE IF ~Exists(FilePath(files[req.id], req.size)) THEN none(404, "Not found")
  ELSE [status |-> 200, error |-> "", body |-> blobs[FilePath(files[req.id], req.size)],
        type |-> MimeLookup(files[req.id].name)]

getFile(req) ==
  /\ resp' = [op |-> "getFile", req |-> req, status |-> FileReply(req).status,
              error |-> FileReply(req).error, body |-> FileReply(req).body]
  /\ UNCHANGED <<files, blobs, uuid, queue, runs, log>>

\* ----------------------------------------------------------------- worker
\* mutant: the thumbnail is written to `${path}`, the width left out
SizeTextEmpty(width) == ""

\* worker.js:11 -- the text of ${width} in `${path}_${width}`
SizeText(width) == ToString(width)

Settled(run) == \A w \in SizeSet : run.w[w] \in {"done", "failed"}

\* the run leaves its slot once none of its generateThumbnail calls is pending
Reap(run) == IF Settled(run) THEN NoRun ELSE run

\* n is the number of the delivery of the job that the run is
Entry(run, status) ==
  [userId |-> run.userId, fileId |-> run.fileId, status |-> status, n |-> run.n]

\* worker.js:15-29, up to the three generateThumbnail calls of line 28.
\* Bull hands the processor one job at a time: the next job starts when the
\* promise of the previous one has settled.
StartJob ==
  /\ queue # <<>>
  /\ \A r \in 1..MaxRuns : runs[r] # NoRun => runs[r].status # "active"
  /\ \E r \in 1..MaxRuns :
       /\ runs[r] = NoRun
       /\ \A q \in 1..(r - 1) : runs[q] # NoRun
       /\ LET job == Head(queue) IN
          /\ queue' = Tail(queue)
          /\ IF job.fileId = -2
             THEN /\ log' = log \cup {[userId |-> job.userId, fileId |-> job.fileId,
                                       status |-> "Missing fileId", n |-> 1]}
                  /\ runs' = runs
             ELSE IF job.userId = ""
             THEN /\ log' = log \cup {[userId |-> job.userId, fileId |-> job.fileId,
                                       status |-> "Missing userId", n |-> 1]}
                  /\ runs' = runs
             ELSE IF ~ObjectIdValid(Str(job.fileId))
             THEN /\ log' = log \cup {[userId |-> job.userId, fileId |-> job.fileId,
                                       status |-> "TypeError", n |-> 1]}
                  /\ runs' = runs
             ELSE IF ~HasOwnedFile(job.fileId, job.userId)
             THEN /\ log' = log \cup {[userId |-> job.userId, fileId |-> job.fileId,
                                       status |-> "File not found", n |-> 1]}
                  /\ runs' = runs
             ELSE /\ runs' = [runs EXCEPT ![r] =
                                [userId |-> job.userId, fileId |-> job.fileId,
                                 path |-> files[job.fileId].localPath,
                                 w |-> [s \in SizeSet |-> "todo"], status |-> "active",
                                 n |-> 1]]
                  /\ log' = log
  /\ UNCHANGED <<files, blobs, uuid, resp>>

\* mutant: the thumbnail is appended to the file that is there (flag 'a')
OpenForAppend(fs, path, bytes, width) ==
  Put(fs, path, [bytes |-> IF path \in DOMAIN fs THEN fs[path].bytes \o bytes ELSE bytes,
                 width |-> width, complete |-> FALSE])

\* worker.js:12 -- fs.promises.writeFile opens the target with flag 'w': the
\* file exists, truncated, from the open until the data is written
OpenForWrite(fs, path, bytes, width) ==
  Put(fs, path, [bytes |-> bytes, width |-> width, complete |-> FALSE])

\* worker.js:12 -- the write has finished
CloseWritten(fs, path) == [fs EXCEPT ![path].complete = TRUE]

\* Promise.all (worker.js:28) rejects with the first rejection
AfterFailure(status) == IF status = "active" THEN "failed" ELSE status

\* Promise.all (worker.js:28) resolves when every promise has resolved
AfterDone(run) ==
  IF run.status = "active" /\ \A w \in SizeSet : run.w[w] = "done"
  THEN "completed" ELSE run.status

Settle(run, before) ==
  IF run.status # before /\ before = "active" THEN {Entry(run, run.status)} ELSE {}

\* worker.js:10-12: imageThumbnail(path, { width }) reads the primary blob;
\* ok says whether it resolves. On success writeFile opens `${path}_${width}`.
Thumbnail(r, width) ==
  /\ runs[r] # NoRun
  /\ runs[r].w[width] = "todo"
  /\ \E ok \in BOOLEAN :
       LET run == runs[r]
           source == <<run.path, "">>
           good == ok /\ Exists(source)
           after == IF good
                    THEN [run EXCEPT !.w[width] = "writing"]
                    ELSE [run EXCEPT !.w[width] = "failed",
                                     !.status = AfterFailure(run.status)]
       IN
       /\ blobs' = IF good
                   THEN OpenForWrite(blobs, <<run.path, SizeText(width)>>,
                                     blobs[source].bytes, width)
                   ELSE blobs
       /\ runs' = [runs EXCEPT ![r] = Reap(after)]
       /\ log' = log \cup Settle(after, run.status)
  /\ UNCHANGED <<files, uuid, queue, resp>>

\* worker.js:12: the writeFile promise resolves
WriteEnd(r, width) ==
  /\ runs[r] # NoRun
  /\ runs[r].w[width] = "writing"
  /\ LET run == runs[r]
         written == [run EXCEPT !.w[width] = "done"]
         after == [written EXCEPT !.status = AfterDone(written)]
     IN
     /\ blobs' = CloseWritten(blobs, <<run.path, SizeText(width)>>)
     /\ runs' = [runs EXCEPT ![r] = Reap(after)]
     /\ log' = log \cup Settle(after, run.status)
  /\ UNCHANGED <<files, uuid, queue, resp>>

\* ------------------------------------------------------ the requests sent
Show == \E req \in {IdRequest(t, i) : t \in {"tA", "tB", "tX"}, i \in {1, -1}} : getShow(req)

Index ==
  \E req \in {IndexRequest("tA", Undefined, Undefined), IndexRequest("tA", Str(1), Str(0)),
            IndexRequest("", Undefined, Undefined)} :
    getIndex(req)

Publish ==
  \E req \in {IdRequest(t, 1) : t \in {"tA", "tB", "tX"}} \cup {IdRequest("tA", -1)} :
    putPublish(req)

Unpublish == \E req \in {IdRequest(t, 1) : t \in {"tA", "tB", ""}} : putUnpublish(req)

File ==
  \E req \in {FileRequest(t, i, s) : t \in {"", "tA", "tB"}, i \in {1}, s \in {"", "250"}}
            \cup {FileRequest("", i, "") : i \in {2, -1}} :
    getFile(req)

Work == \E r \in 1..MaxRuns, width \in SizeSet : Thumbnail(r, width) \/ WriteEnd(r, width)

Next == Upload \/ Show \/ Index \/ Publish \/ Unpublish \/ File \/ StartJob \/ Work

Spec == Init /\ [][Next]_vars

\* ------------------------------------------- jobs of any producer (C17)
\* worker.js:16 -- job.data is whatever a producer put on fileQueue; the
\* processor trusts nothing about it. The jobs another producer adds here: no
\* fileId, no userId, a fileId that is not an ObjectId text, the id of a
\* record of A with the userId of B, an id that has no record.
OtherJobs ==
  { [userId |-> "A", fileId |-> -2], [userId |-> "", fileId |-> 1],
    [userId |-> "A", fileId |-> -1], [userId |-> "B", fileId |-> 1],
    [userId |-> "A", fileId |-> MaxFiles + 1] }

Produce ==
  /\ Len(queue) < MaxQueue
  /\ \E job \in OtherJobs : queue' = Append(queue, job)
  /\ UNCHANGED <<files, blobs, uuid, runs, log, resp>>

\* the uploads that make the records the jobs refer to
UploadFile ==
  \E req \in {r \in SentUploads : r.token = "tA" /\ r.insertOk /\ r.addOk
                                   /\ r.parentId = Undefined /\ r.data # ""} :
    postUpload(req)

NextJobs == UploadFile \/ Produce \/ StartJob \/ Work

SpecJobs == Init /\ [][NextJobs]_vars

\* ------------------------------------------ a job delivered again (C18)
\* Bull delivers at least once: a job whose first run is still active is
\* handed to a processor a second time (worker.js:15), which runs lines 16-28
\* for it again while the first run goes on. The record is found again, and
\* the three generateThumbnail calls of the second run start.
Redeliver ==
  /\ \E r \in 1..MaxRuns, q \in 1..MaxRuns :
       /\ runs[r] # NoRun
       /\ runs[r].status = "active"
       /\ runs[r].n = 1
       /\ \A o \in 1..MaxRuns : runs[o] # NoRun => runs[o].n = 1
       /\ runs[q] = NoRun
       /\ \A o \in 1..(q - 1) : runs[o] # NoRun
       /\ HasOwnedFile(runs[r].fileId, runs[r].userId)
       /\ runs' = [runs EXCEPT ![q] =
                     [userId |-> runs[r].userId, fileId |-> runs[r].fileId,
                      path |-> files[runs[r].fileId].localPath,
                      w |-> [s \in SizeSet |-> "todo"], status |-> "active",
                      n |-> runs[r].n + 1]]
  /\ UNCHANGED <<files, blobs, uuid, queue, log, resp>>

\* the upload that makes the image and its job
UploadImage ==
  /\ files = <<>>
  /\ \E req \in {r \in SentUploads : r.token # "" /\ r.type = "image" /\ r.insertOk
                                     /\ r.addOk
                                     /\ r.parentId = Undefined /\ r.name # ""} :
       postUpload(req)

NextTwice == UploadImage \/ StartJob \/ Redeliver \/ Work

SpecTwice == Init /\ [][NextTwice]_vars

\* ------------------------------------------------------------------ claims
NotOwner(file, token) == token = "" \/ redisGet(token) = "" \/ redisGet(token) # file.userId

\* the primary blobs on disk
Primary(fs) == {p \in DOMAIN fs : p[2] = ""}

\* C1: getFile on a private record, called with no token, with a token that
\* resolves to no user or with the token of a user who is not the owner,
\* answers 404 and never 401; getFile on an id that has no record answers 404
\* too.
C1_Claim ==
  resp.op = "getFile" =>
    /\ (HasFile(resp.req.id) /\ ~files[resp.req.id].isPublic
          /\ NotOwner(files[resp.req.id], resp.req.token)) => resp.status = 404
    /\ ~HasFile(resp.req.id) => resp.status = 404

\* C2: getShow with a valid token answers 404 on the id of a record of another
\* user, as it does on an id that has no record, whatever isPublic is; with
\* the owner's token it answers the record.
C2_Claim ==
  (resp.op = "getShow" /\ SessionUser(resp.req.token) # "") =>
    /\ (HasFile(resp.req.id) /\ files[resp.req.id].userId # SessionUser(resp.req.token))
         => resp.status = 404
    /\ ~HasFile(resp.req.id) => resp.status = 404
    /\ HasOwnedFile(resp.req.id, SessionUser(resp.req.token))
         => (resp.status = 200 /\ resp.body = resp.req.id)

\* C3: postUpload is all-or-nothing: a step that ends with its 201 response
\* has persisted the record and, for a file or an image, its primary blob; a
\* step that ends with any other postUpload response has added no record and
\* no blob.
C3_Claim ==
  [][resp'.op = "postUpload" =>
       IF resp'.status = 201 /\ Len(files') = Len(files) + 1
       THEN files'[Len(files')].type # "folder"
              => <<files'[Len(files')].localPath, "">> \in Primary(blobs')
       ELSE files' = files /\ Primary(blobs') = Primary(blobs)]_vars

\* a step of a request handler: the worker's steps all change runs or log
HandlerStep == runs' = runs /\ log' = log

Authorized == {t \in Tokens : UploadUser(t) # ""}

NonFolder(parentId) ==
  ObjectIdValid(parentId) /\ HasFile(ObjectId(parentId))
    /\ files[ObjectId(parentId)].type # "folder"

\* C4 as stated: every authorized postUpload of type file or image whose
\* parentId is the id of a record that is not a folder answers 400 'Parent is
\* not a folder' and leaves the records, the blobs and the queue unchanged.
C4_Claim ==
  [][(HandlerStep /\ resp'.op = "postUpload" /\ resp'.req.token \in Authorized
        /\ resp'.req.type \in {"file", "image"} /\ NonFolder(resp'.req.parentId))
       => (resp'.status = 400 /\ resp'.error = "Parent is not a folder"
             /\ UNCHANGED <<files, blobs, queue>>)]_vars

C4Requests ==
  {UploadRequest(t, n, ty, Str(p), ip, d, io, ao) :
     t \in Authorized, n \in {"", "a.png"}, ty \in {"file", "image"}, p \in 1..MaxFiles,
     ip \in {"undefined"}, d \in {"", "aGk="}, io \in BOOLEAN, ao \in {TRUE}}

\* C4 amended: in every reachable state, every authorized postUpload of type
\* file or image whose parentId is the id of a record that is not a folder
\* answers 400 and leaves the records, the blobs and the queue unchanged; the
\* error is 'Parent is not a folder' when name and data are present, and
\* 'Missing name' or 'Missing data' otherwise.
C4_Theorem ==
  \A req \in C4Requests :
    NonFolder(req.parentId) =>
      LET out == UploadOutcome(req) IN
      /\ out.status = 400
      /\ out.files = files
      /\ out.blobs = blobs
      /\ out.queue = queue
      /\ out.error = IF req.name = "" THEN "Missing name"
                     ELSE IF req.data = "" THEN "Missing data"
                     ELSE "Parent is not a folder"

C4_Witness ==
  /\ resp.op = "postUpload"
  /\ resp.req.type \in {"file", "image"}
  /\ resp.req.token \in Authorized
  /\ NonFolder(resp.req.parentId)
  /\ resp.status = 400
  /\ resp.error = "Parent is not a folder"

Min(a, b) == IF a < b THEN a ELSE b

Max(a, b) == IF a < b THEN b ELSE a

\* the records a user created under root with parentId left at its default
RootOf(userId) ==
  {i \in 1..Len(files) : files[i].userId = userId /\ files[i].parentId = ParentDefault(Undefined)}

\* C5: after user A has created n records with parentId left at its default,
\* getIndex with A's token, parentId left at its default and page p answers
\* exactly min(20, max(0, n - 20p)) records, all of A and all under root.
C5_Claim ==
  (resp.op = "getIndex" /\ SessionUser(resp.req.token) # ""
     /\ resp.req.parentId = Undefined /\ QueryPage(resp.req.page) >= 0) =>
    /\ resp.status = 200
    /\ Len(resp.body) =
         Min(pageSize, Max(0, Cardinality(RootOf(SessionUser(resp.req.token)))
                                - pageSize * QueryPage(resp.req.page)))
    /\ \A k \in 1..Len(resp.body) : resp.body[k] \in RootOf(SessionUser(resp.req.token))

\* C6: every putPublish / putUnpublish by the owner of an existing record
\* answers 200 with the record, its isPublic being the value of that call
\* whatever it was before, and the stored isPublic is the value of the last
\* such call.
C6_Theorem ==
  /\ \A i \in 1..Len(files), t \in Tokens, value \in BOOLEAN :
       (t # "" /\ redisGet(t) = files[i].userId) =>
         /\ PublishOutcome(IdRequest(t, i), value).status = 200
         /\ PublishOutcome(IdRequest(t, i), value).body = i
         /\ PublishOutcome(IdRequest(t, i), value).isPublic = value
         /\ PublishOutcome(IdRequest(t, i), value).files[i].isPublic = value
  /\ (resp.op \in {"putPublish", "putUnpublish"} /\ resp.status = 200) =>
       /\ resp.isPublic = (resp.op = "putPublish")
       /\ files[resp.req.id].isPublic = (resp.op = "putPublish")

\* a putPublish of a record that was public already, answered 200
C6_Witness ==
  /\ resp.op = "putPublish"
  /\ resp.status = 200
  /\ resp.was
  /\ files[resp.req.id].isPublic

Derived(fileId) == {<<files[fileId].localPath, SizeText(w)>> : w \in SizeSet}

\* once a job has completed, the three thumbnails of its record exist
Processed ==
  \A e \in log : e.status = "completed" => \A p \in Derived(e.fileId) : Exists(p)

\* the jobs of record i that wait, run or have settled
JobsOf(i) ==
  Len(SelectSeq(queue, LAMBDA j : j.fileId = i))
    + Cardinality({r \in 1..MaxRuns : runs[r] # NoRun /\ runs[r].fileId = i
                                        /\ runs[r].status = "active"})
    + Cardinality({e \in log : e.fileId = i})

\* no record has more than one job, and only images have one
AtMostOneJob ==
  \A i \in 1..Len(files) : JobsOf(i) <= IF files[i].type = "image" THEN 1 ELSE 0

\* C7 as stated: every postUpload answered 201 adds exactly one job
\* {userId, fileId} of the created record to the queue when the type is image
\* and none otherwise; once the worker has completed that job the three
\* thumbnails exist.
C7_Claim ==
  [][/\ Processed
     /\ (HandlerStep /\ resp'.op = "postUpload" /\ resp'.status = 201
           /\ Len(files') = Len(files) + 1)
          => queue' = IF resp'.req.type = "image"
                      THEN Append(queue, [userId |-> files'[Len(files')].userId,
                                          fileId |-> Len(files')])
                      ELSE queue]_vars

C7Requests ==
  {UploadRequest(t, "a.png", ty, p, "undefined", "aGk=", io, ao) :
     t \in Authorized, ty \in {"folder", "file", "image"},
     p \in {Undefined, Str(1)}, io \in BOOLEAN, ao \in BOOLEAN}

\* C7 amended: every postUpload answered 201 submits one job {userId, fileId}
\* of the created record when the type is image, which is in the queue unless
\* fileQueue.add fails (then the queue is unchanged), and leaves the queue
\* unchanged when the type is file or folder; once the worker has completed a
\* job the three thumbnails of its record exist.
C7_Theorem ==
  /\ Processed
  /\ AtMostOneJob
  /\ \A req \in C7Requests :
       LET out == UploadOutcome(req) IN
       out.status = 201 =>
         out.queue =
           IF req.type = "image" /\ req.addOk
           THEN Append(queue, [userId |-> redisGet(req.token), fileId |-> Len(files) + 1])
           ELSE queue

\* the job of an image has completed and its three thumbnails are on disk
C7_Witness ==
  \E e \in log :
    /\ e.status = "completed"
    /\ files[e.fileId].type = "image"
    /\ \A p \in Derived(e.fileId) : Exists(p) /\ blobs[p].complete

\* C8: for an image record the caller has access to, getFile with size = w
\* answers 404 as long as the worker has not completed writing the thumbnail
\* of width w (also after a job whose resize failed), and answers that
\* thumbnail once it is written.
C8_Claim ==
  \A t \in Tokens, i \in 1..Len(files), w \in SizeSet :
    (files[i].type = "image" /\ FileAccess(files[i], t)) =>
      LET path == <<files[i].localPath, SizeText(w)>>
          reply == FileReply(FileRequest(t, i, SizeText(w)))
      IN IF Exists(path) /\ blobs[path].complete
         THEN reply.status = 200 /\ reply.body = blobs[path] /\ reply.body.width = w
         ELSE reply.status = 404

\* C9: a getFile that finds a file at localPath or at a thumbnail path never
\* serves a partially written file.
C9_Claim == (resp.op = "getFile" /\ resp.status = 200) => resp.body.complete

C10Requests ==
  {UploadRequest(t, "a.png", "image", p, ip, d, io, FALSE) :
     t \in Tokens, p \in {Undefined, Str(1)},
     ip \in {"undefined", "true"}, d \in {"aGk="}, io \in BOOLEAN}

Added(req) == [req EXCEPT !.addOk = TRUE]

\* C10: when fileQueue.add fails in a postUpload of an image that would
\* otherwise succeed, the handler still answers 201 with the created record,
\* and the record and its primary blob are persisted as when add succeeds.
C10_Theorem ==
  /\ \A req \in C10Requests :
       LET out == UploadOutcome(req)
           added == UploadOutcome(Added(req))
       IN
       added.status = 201 =>
         /\ out.status = 201
         /\ out.body = added.body
         /\ out.files = added.files
         /\ out.blobs = added.blobs
         /\ Len(out.files) = Len(files) + 1
         /\ <<uuid + 1, "">> \in DOMAIN out.blobs
  /\ (resp.op = "postUpload" /\ resp.req.type = "image" /\ ~resp.req.addOk
        /\ resp.req.insertOk /\ resp.req.token \in Authorized
        /\ FieldError(resp.req.name, resp.req.type, resp.req.data) = ""
        /\ resp.req.parentId = Undefined)
       => (resp.status = 201 /\ HasFile(resp.body.id)
             /\ Exists(<<files[resp.body.id].localPath, "">>))

\* a postUpload of an image whose fileQueue.add failed was answered 201
C10_Witness ==
  /\ resp.op = "postUpload"
  /\ resp.req.type = "image"
  /\ ~resp.req.addOk
  /\ resp.status = 201
  /\ HasFile(resp.body.id)
  /\ Exists(<<files[resp.body.id].localPath, "">>)
  /\ \A k \in 1..Len(queue) : queue[k].fileId # resp.body.id

C11Requests ==
  {UploadRequest(t, "a.png", "folder", p, ip, d, TRUE, ao) :
     t \in Authorized, p \in {Undefined, Str(1)}, ip \in {"undefined", "true", "false"},
     d \in {"", "aGk="}, ao \in BOOLEAN}

\* in the current state: the records stored, and what postUpload answers to
\* the requests of C11Requests
C11_Records ==
  /\ \A i \in 1..Len(files) :
       IF files[i].type = "folder"
       THEN files[i].localPath = 0
       ELSE /\ files[i].localPath >= 1
            /\ <<files[i].localPath, "">> \in Primary(blobs)
            /\ blobs[<<files[i].localPath, "">>].complete
  /\ \A req \in C11Requests :
       LET out == UploadOutcome(req) IN
       out.status = 201 =>
         /\ Len(out.files) = Len(files) + 1
         /\ out.files[Len(out.files)].localPath = 0
         /\ out.blobs = blobs
         /\ req.isPublic = "undefined" => ~out.files[Len(out.files)].isPublic

\* the step of a postUpload of type folder that answers 201
C11_Step ==
  (HandlerStep /\ resp'.op = "postUpload" /\ resp'.status = 201
     /\ resp'.req.type = "folder") =>
    /\ blobs' = blobs
    /\ queue' = queue
    /\ Len(files') = Len(files) + 1
    /\ files'[Len(files')].type = "folder"
    /\ files'[Len(files')].localPath = 0
    /\ resp'.req.isPublic = "undefined" => ~files'[Len(files')].isPublic

\* C11: every postUpload of type folder answered 201 adds a record without
\* localPath, writes no blob, and stores isPublic false when the request has
\* no isPublic; in every reachable state no folder record has a localPath and
\* every file or image record has a localPath whose primary blob is on disk.
C11_Theorem == []C11_Records /\ [][C11_Step]_vars

\* a folder created without isPublic is stored private and without localPath,
\* and no blob is on disk
C11_Witness ==
  /\ resp.op = "postUpload"
  /\ resp.status = 201
  /\ resp.req.type = "folder"
  /\ resp.req.isPublic = "undefined"
  /\ files[resp.body.id].type = "folder"
  /\ files[resp.body.id].localPath = 0
  /\ ~files[resp.body.id].isPublic
  /\ blobs = <<>>

\* the tokens the session store resolves to no user; "" is an absent header
Unresolved == {t \in Tokens : t = "" \/ redisGet(t) = ""}

IdTexts == {-1, 0} \cup 1..(MaxFiles + 1)

C12Uploads ==
  {UploadRequest(t, n, ty, p, "undefined", d, TRUE, TRUE) :
     t \in Unresolved, n \in {"", "a.png"}, ty \in {"", "folder", "image"},
     p \in {Undefined, Str(-1), Str(1), Str(MaxFiles + 1)}, d \in {"", "aGk="}}

\* what the five handlers answer to a token of Unresolved, in the current state
C12_Replies ==
  /\ \A req \in C12Uploads :
       LET out == UploadOutcome(req) IN
       /\ out.status = 401
       /\ out.files = files
       /\ out.blobs = blobs
       /\ out.queue = queue
  /\ \A t \in Unresolved, i \in IdTexts :
       /\ ShowReply(IdRequest(t, i)).status = 401
       /\ \A value \in BOOLEAN :
            /\ PublishOutcome(IdRequest(t, i), value).status = 401
            /\ PublishOutcome(IdRequest(t, i), value).files = files
  /\ \A t \in Unresolved, p \in {Undefined, Str(0), Str(1)}, page \in {Undefined, Str(-1), Str(1)} :
       IndexReply(IndexRequest(t, p, page)).status = 401

\* a step of one of the five handlers called with a token of Unresolved
C12_Step ==
  (HandlerStep /\ resp'.op \in {"postUpload", "getShow", "getIndex", "putPublish", "putUnpublish"}
     /\ resp'.req.token \in Unresolved)
    => (resp'.status = 401 /\ resp'.error = "Unauthorized"
          /\ UNCHANGED <<files, blobs, queue>>)

\* C12: postUpload, getShow, getIndex, putPublish and putUnpublish called
\* without a token, or with a token the session store resolves to no user,
\* answer 401 'Unauthorized' and leave the records, the blobs and the queue
\* unchanged, whatever the fields, the parent or the id of the request are
\* (the token check comes before every other check).
C12_Theorem == []C12_Replies /\ [][C12_Step]_vars

\* a postUpload with an unknown token, no name, no data and a malformed
\* parentId was answered 401 while a record was stored
C12_Witness ==
  /\ resp.op = "postUpload"
  /\ resp.req.token = "tX"
  /\ resp.req.name = ""
  /\ resp.status = 401
  /\ files # <<>>

\* C13: putPublish and putUnpublish called with a valid token on an id that
\* has no record, or on the id of a record of another user, answer 404 and
\* leave the isPublic of every record unchanged; no user changes the isPublic
\* of a record of another user.
C13_Claim ==
  [][(HandlerStep /\ resp'.op \in {"putPublish", "putUnpublish"}
        /\ SessionUser(resp'.req.token) # ""
        /\ ~HasOwnedFile(resp'.req.id, SessionUser(resp'.req.token)))
       => (resp'.status = 404 /\ files' = files)]_vars

C14Requests ==
  {UploadRequest(t, n, ty, p, "undefined", d, TRUE, TRUE) :
     t \in Authorized, n \in {"", "a.png"}, ty \in {"", "video", "folder", "image"},
     p \in {Undefined, Str(-1), Str(1)}, d \in {"", "aGk="}}

\* the error the claim names for a request, "" if it names none
C14Error(req) ==
  IF req.name = "" THEN "Missing name"
  ELSE IF req.type \notin {"folder", "file", "image"} THEN "Missing type"
  ELSE IF req.data = "" /\ req.type # "folder" THEN "Missing data"
  ELSE ""

\* in the current state: what postUpload answers to the requests of
\* C14Requests, and what it answered to the last request
C14_Replies ==
  /\ \A req \in C14Requests :
       C14Error(req) # "" =>
         LET out == UploadOutcome(req) IN
         /\ out.status = 400
         /\ out.error = C14Error(req)
         /\ out.files = files
         /\ out.blobs = blobs
         /\ out.queue = queue
  /\ (resp.op = "postUpload" /\ resp.req.token \in Authorized /\ C14Error(resp.req) # "")
       => (resp.status = 400 /\ resp.error = C14Error(resp.req))

\* the step of an authorized postUpload for which the claim names an error
C14_Step ==
  (HandlerStep /\ resp'.op = "postUpload" /\ resp'.req.token \in Authorized
     /\ C14Error(resp'.req) # "")
    => (resp'.status = 400 /\ resp'.error = C14Error(resp'.req)
          /\ UNCHANGED <<files, blobs, queue>>)

\* C14: an authorized postUpload without name answers 400 'Missing name';
\* otherwise, without type or with a type other than folder, file, image, it
\* answers 400 'Missing type'; otherwise, without data and with a type other
\* than folder, it answers 400 'Missing data'. This holds whatever parentId
\* is (the checks come before the parent lookup), and in each case the
\* records, the blobs and the queue are unchanged.
C14_Theorem == []C14_Replies /\ [][C14_Step]_vars

\* a postUpload without name, whose parentId the parent lookup would have
\* rejected, was answered 'Missing name'
C14_Witness ==
  /\ resp.op = "postUpload"
  /\ resp.req.token \in Authorized
  /\ resp.req.name = ""
  /\ ParentError(ParentDefault(resp.req.parentId)) # ""
  /\ resp.status = 400
  /\ resp.error = "Missing name"

\* the access check of the claim: the record is public, or the token resolves
\* to its owner
C15Access(file, token) == file.isPublic \/ ~NotOwner(file, token)

\* C15: getFile on a folder answers 400 whenever the folder is public or the
\* token resolves to its owner, and never answers content; on a private
\* folder and a caller who is not its owner it answers 404, not 400.
C15_Theorem ==
  /\ \A i \in 1..Len(files), t \in Tokens, s \in {"", "250"} :
       files[i].type = "folder" =>
         LET reply == FileReply(FileRequest(t, i, s)) IN
         /\ reply.body = NoBlob
         /\ reply.status = IF C15Access(files[i], t) THEN 400 ELSE 404
  /\ (resp.op = "getFile" /\ HasFile(resp.req.id) /\ files[resp.req.id].type = "folder")
       => resp.status \in {400, 404}

\* getFile on a private folder was answered 404 to a user who is not its owner
C15_Witness ==
  /\ resp.op = "getFile"
  /\ HasFile(resp.req.id)
  /\ files[resp.req.id].type = "folder"
  /\ ~files[resp.req.id].isPublic
  /\ resp.req.token = "tA"
  /\ files[resp.req.id].userId = "B"
  /\ resp.status = 404

\* C16: within one job the three widths are independent: the failure of one
\* width leaves the other widths of the run as they are (they can still be
\* written), and the job is reported failed only when all three widths have
\* failed.
C16_Claim ==
  [][/\ \A r \in 1..MaxRuns, width \in SizeSet :
          (runs[r] # NoRun /\ runs'[r] # NoRun /\ runs[r].w[width] # "failed"
             /\ runs'[r].w[width] = "failed")
            => \A other \in SizeSet \ {width} : runs'[r].w[other] = runs[r].w[other]
     /\ \A e \in log' \ log :
          e.status = "failed" =>
            \E r \in 1..MaxRuns :
              /\ runs[r] # NoRun
              /\ runs[r].fileId = e.fileId
              /\ \E width \in SizeSet :
                   /\ runs[r].w[width] = "todo"
                   /\ \A other \in SizeSet \ {width} : runs[r].w[other] = "failed"]_vars

\* the derived blobs that a step wrote or opened
Written == {p \in DOMAIN blobs' : p[2] # "" /\ (p \notin DOMAIN blobs \/ blobs'[p] # blobs[p])}

\* C17: the worker writes a derived blob only for a run of a job {userId,
\* fileId} for which a record with that id and that owner exists; a job
\* without fileId or without userId fails as an invalid job ('Missing
\* fileId', 'Missing userId'), a job whose fileId has no record or whose
\* record belongs to another user fails with 'File not found', and neither
\* writes a blob.
C17_Claim ==
  [][/\ \A p \in Written :
          \E r \in 1..MaxRuns :
            /\ runs[r] # NoRun
            /\ HasOwnedFile(runs[r].fileId, runs[r].userId)
            /\ files[runs[r].fileId].localPath = p[1]
     /\ (queue # <<>> /\ queue' = Tail(queue)) =>
          LET job == Head(queue) IN
          /\ (job.fileId = -2 \/ job.userId = "") =>
               /\ \E e \in log' : /\ e.userId = job.userId
                                  /\ e.fileId = job.fileId
                                  /\ e.status \in {"Missing fileId", "Missing userId"}
               /\ blobs' = blobs
          /\ (job.fileId # -2 /\ job.userId # "" /\ ~HasOwnedFile(job.fileId, job.userId)) =>
               /\ \E e \in log' : /\ e.userId = job.userId
                                  /\ e.fileId = job.fileId
                                  /\ e.status = "File not found"
               /\ blobs' = blobs]_vars

\* what one run of generateThumbnail leaves at `${path}_${width}`
ThumbnailOf(fs, path, width) ==
  [bytes |-> fs[<<path, "">>].bytes, width |-> width, complete |-> TRUE]

\* record i has no run in flight, two deliveries of its job have completed
\* and none has failed
BothCompleted(i) ==
  /\ \A r \in 1..MaxRuns : runs[r] # NoRun => runs[r].fileId # i
  /\ \A k \in 1..Len(queue) : queue[k].fileId # i
  /\ \E e \in log : e.fileId = i /\ e.status = "completed" /\ e.n = 1
  /\ \E e \in log : e.fileId = i /\ e.status = "completed" /\ e.n = 2
  /\ \A e \in log : e.fileId = i => e.status = "completed"

C18_Final ==
  \A i \in 1..Len(files) :
    BothCompleted(i) =>
      /\ {p \in DOMAIN blobs : p[1] = files[i].localPath /\ p[2] # ""} = Derived(i)
      /\ \A w \in SizeSet :
           blobs[<<files[i].localPath, SizeText(w)>>] = ThumbnailOf(blobs, files[i].localPath, w)

\* a step of the worker or of the queue
C18_Step ==
  (runs' # runs \/ log' # log) =>
    /\ files' = files
    /\ \A p \in Primary(blobs) : p \in Primary(blobs') /\ blobs'[p] = blobs[p]

\* C18: when the job of a record is delivered twice and the two runs go on
\* concurrently, then under every interleaving of their steps, once both
\* runs have completed, exactly the three files `${localPath}_500`, `_250`
\* and `_100` exist for the record, each completely written with the
\* contents a single run writes; the record and the primary blob are never
\* changed by the runs.
C18_Theorem == []C18_Final /\ [][C18_Step]_vars

\* both deliveries of the job of an image have completed
C18_Witness ==
  \E i \in 1..Len(files) :
    /\ BothCompleted(i)
    /\ \A p \in Derived(i) : Exists(p) /\ blobs[p].complete

\* record `after` is record `before` but for its isPublic
SameButPublic(after, before) == [after EXCEPT !.isPublic = before.isPublic] = before

\* every record stored before the step is stored after it, with the same _id
\* and the same userId, name, type, parentId and localPath
C19_Immutable ==
  /\ Len(files') >= Len(files)
  /\ \A i \in 1..Len(files) : SameButPublic(files'[i], files[i])

\* the step of putPublish / putUnpublish
C19_Publish ==
  (HandlerStep /\ resp'.op \in {"putPublish", "putUnpublish"}) =>
    /\ blobs' = blobs
    /\ queue' = queue
    /\ Len(files') = Len(files)
    /\ \A i \in 1..Len(files) : i # resp'.req.id => files'[i] = files[i]

\* the step of getShow, getIndex, getFile
C19_Read ==
  (HandlerStep /\ resp'.op \in {"getShow", "getIndex", "getFile"}) =>
    (files' = files /\ blobs' = blobs /\ queue' = queue)

\* a step of the worker, whether a thumbnail succeeds or fails
C19_Worker ==
  (runs' # runs \/ log' # log) =>
    /\ files' = files
    /\ Primary(blobs') = Primary(blobs)
    /\ \A p \in Primary(blobs) : blobs'[p] = blobs[p]

Fetch(t, i) == FileReply(FileRequest(t, i, ""))

\* in the current state: a caller who is not the owner gets the content of
\* a file or image exactly when it is public, the owner gets it always
C20_Visible ==
  \A i \in 1..Len(files), t \in Tokens :
    (files[i].type # "folder" /\ <<files[i].localPath, "">> \in Primary(blobs)) =>
      IF NotOwner(files[i], t) /\ ~files[i].isPublic
      THEN Fetch(t, i).status = 404
      ELSE /\ Fetch(t, i).status = 200
           /\ Fetch(t, i).body = blobs[<<files[i].localPath, "">>]

\* right after the owner's putPublish / putUnpublish of a file or image
C20_Step ==
  \A i \in 1..Len(files), t \in Tokens :
    (HandlerStep /\ resp'.op \in {"putPublish", "putUnpublish"} /\ resp'.status = 200
       /\ resp'.req.id = i /\ files[i].type # "folder") =>
      (Fetch(t, i).status)' =
        IF resp'.op = "putUnpublish" /\ NotOwner(files[i], t) THEN 404 ELSE 200

\* C20: in every state, getFile called without token or with the token of a
\* user who is not the owner, on a file or image record whose primary blob
\* exists, answers the content if and only if the record's isPublic is true
\* in that state: after the owner's putPublish everybody gets the content,
\* after a later putUnpublish a caller who is not the owner gets 404 again,
\* and the owner gets the content in every state.
C20_Theorem == []C20_Visible /\ [][C20_Step]_vars

\* a user who is not the owner was answered the content of a record that its
\* owner had published
C20_Witness ==
  /\ resp.op = "getFile"
  /\ resp.req.token = "tB"
  /\ resp.req.size = ""
  /\ HasFile(resp.req.id)
  /\ files[resp.req.id].userId = "A"
  /\ files[resp.req.id].isPublic
  /\ resp.status = 200
  /\ resp.body = blobs[<<files[resp.req.id].localPath, "">>]

\* parentId is the id of a stored folder
FolderId(parentId) ==
  ObjectIdValid(parentId) /\ HasFile(ObjectId(parentId))
    /\ files[ObjectId(parentId)].type = "folder"

\* parentId is the id of no stored record
NoRecord(parentId) == ~(ObjectIdValid(parentId) /\ HasFile(ObjectId(parentId)))

C21_Parents ==
  \A i \in 1..Len(files) : files[i].parentId = ParentDefault(Undefined) \/ FolderId(files[i].parentId)

\* an authorized postUpload with name, type and data whose parentId is not
\* the root value and is the id of no record
C21_NotFound ==
  (HandlerStep /\ resp'.op = "postUpload" /\ resp'.req.token \in Authorized
     /\ FieldError(resp'.req.name, resp'.req.type, resp'.req.data) = ""
     /\ ParentDefault(resp'.req.parentId) # ParentDefault(Undefined)
     /\ NoRecord(resp'.req.parentId))
    => (resp'.status = 400 /\ resp'.error = "Parent not found"
          /\ UNCHANGED <<files, blobs, queue>>)

\* no step removes a record or changes the type or the parentId of one
C21_Kept ==
  /\ Len(files') >= Len(files)
  /\ \A i \in 1..Len(files) :
       files'[i].type = files[i].type /\ files'[i].parentId = files[i].parentId

\* C21: in every reachable state the parentId of each record is the root
\* value or the id of a stored folder: an authorized postUpload whose
\* parentId is not the root value and is the id of no record answers 400
\* 'Parent not found' and stores nothing, and no step removes a record or
\* changes the type or the parentId of one.
C21_Claim == []C21_Parents /\ [][C21_NotFound /\ C21_Kept]_vars

\* the job names a stored image and its owner
Resolves(job) ==
  /\ job.userId # ""
  /\ ObjectIdValid(Str(job.fileId))
  /\ HasOwnedFile(job.fileId, job.userId)
  /\ files[job.fileId].type = "image"

C22Requests ==
  {UploadRequest(t, "a.png", ty, p, "undefined", "aGk=", io, ao) :
     t \in Authorized, ty \in {"folder", "file", "image"},
     p \in {Undefined, Str(1)}, io \in BOOLEAN, ao \in BOOLEAN}

\* the jobs that wait resolve; the jobs postUpload would add resolve in the
\* collection it leaves; no job has failed before its thumbnails were started
C22_Jobs ==
  /\ \A k \in 1..Len(queue) : Resolves(queue[k])
  /\ \A req \in C22Requests :
       LET out == UploadOutcome(req) IN
       \A k \in (Len(queue) + 1)..Len(out.queue) :
         /\ out.queue[k].fileId \in 1..Len(out.files)
         /\ out.files[out.queue[k].fileId].userId = out.queue[k].userId
         /\ out.files[out.queue[k].fileId].type = "image"
  /\ \A e \in log : e.status \in {"completed", "failed"}

\* the step in which the worker takes a job finds its record and starts the
\* run
C22_Step ==
  (queue # <<>> /\ queue' = Tail(queue)) =>
    /\ log' = log
    /\ \E r \in 1..MaxRuns :
         /\ runs[r] = NoRun
         /\ runs'[r] # NoRun
         /\ runs'[r].fileId = Head(queue).fileId
         /\ runs'[r].userId = Head(queue).userId
         /\ runs'[r].path = files[Head(queue).fileId].localPath

\* C22: every job that postUpload adds carries the id of a record that is
\* already stored with type image and the id of its owner, so whenever the
\* worker takes such a job its lookup by fileId and userId finds the record:
\* no job added by postUpload fails with 'File not found'.
C22_Theorem == []C22_Jobs /\ [][C22_Step]_vars

\* the worker has taken the job of an image, found the record and started
\* its thumbnails
C22_Witness ==
  /\ queue = <<>>
  /\ log = {}
  /\ \E r \in 1..MaxRuns :
       /\ runs[r] # NoRun
       /\ runs[r].status = "active"
       /\ Resolves([userId |-> runs[r].userId, fileId |-> runs[r].fileId])

\* the files on disk other than primary blobs
DerivedBlobs == DOMAIN blobs \ Primary(blobs)

\* in the current state: the derived files on disk, and the jobs and runs
C23_Blobs ==
  /\ \A p \in DerivedBlobs :
       /\ p[2] \in {"500", "250", "100"}
       /\ blobs[p].width \in {500, 250, 100}
       /\ \E i \in 1..Len(files) : files[i].type = "image" /\ files[i].localPath = p[1]
  /\ \A i \in 1..Len(files) :
       files[i].type # "image" =>
         /\ \A p \in DerivedBlobs : p[1] # files[i].localPath
         /\ \A r \in 1..MaxRuns : runs[r] # NoRun => runs[r].fileId # i
         /\ \A k \in 1..Len(queue) : queue[k].fileId # i

\* every derived file that a step opens or writes is a thumbnail of a stored
\* image
C23_Step ==
  \A p \in Written :
    /\ p[2] \in {"500", "250", "100"}
    /\ \E i \in 1..Len(files) : files[i].type = "image" /\ files[i].localPath = p[1]

\* C23: with postUpload the only producer of jobs, in every reachable state
\* a file `${P}_${w}` is on disk only if P is the localPath of a stored
\* record of type image and w is 500, 250 or 100; no such file is ever
\* written for a record of type file or folder.
C23_Theorem == []C23_Blobs /\ [][C23_Step]_vars

\* the thumbnail of width 100 of an image is on disk, the other two are not
C23_Witness ==
  \E i \in 1..Len(files) :
    /\ files[i].type = "image"
    /\ DerivedBlobs = {<<files[i].localPath, "100">>}
    /\ blobs[<<files[i].localPath, "100">>].width = 100
    /\ blobs[<<files[i].localPath, "100">>].complete
====
